---- MODULE Spec2Model ----
(***************************************************************************)
(* txt-transform-studio: the per-file job lifecycle of the desktop GUI.    *)
(*                                                                         *)
(* process_selected (gui.py) snapshots the settings widgets, adds the      *)
(* number of selected files to processing_count and starts one daemon      *)
(* thread per file.  Each thread runs process_file (file_ops.py): read the *)
(* source, call ask_chatgpt (openai_client.py), copy to the clipboard,     *)
(* write the artifact; then, in a finally block, decrements                *)
(* processing_count with a separate get() and set().                       *)
(*                                                                         *)
(* Tk callbacks (process_selected, save_settings, widget edits) run to     *)
(* completion on the main thread and are one action each.  A worker thread *)
(* is one action per blocking call or Tk call, so that threads interleave  *)
(* between them as the interpreter lets them.  What a worker queues with   *)
(* root.after (the refresh of its row in the file list, the stop of the    *)
(* progress bar) is run later by the main loop, one action per callback.   *)
(***************************************************************************)
EXTENDS Integers, Sequences, FiniteSets, TLC

VARIABLES
    jobs,              \* one record per thread started by process_selected
    processing_count,  \* gui.py:196 tk.IntVar
    widgets,           \* model_var, temp_var, top_p_var, fmt_var, prompt_editor
    settings,          \* user_settings.json as _load_settings returns it
    processed,         \* files of PROCESSED_FOLDER: (name, extension) -> content
    clipboard,         \* the system clipboard (pyperclip)
    client,            \* openai_client.client is set (OPENAI_API_KEY present)
    edits,             \* number of widget edits made so far (bounded)
    progress_bar,      \* gui.py:293 the progress bar is packed and running
    after,             \* callbacks queued with root.after(0, ...), not yet run
    tree,              \* the "Processed" column of the file list, per path
    last_call          \* the last call of set_model_settings and its outcome

vars == <<jobs, processing_count, widgets, settings, processed, clipboard,
          client, edits, progress_bar, after, tree, last_call>>

----------------------------------------------------------------------------
(* Bounds of the model *)

MaxJobs == 2
MaxEdits == 1

----------------------------------------------------------------------------
(* Values *)

None == "None"
Absent == "<absent>"

\* config.py:35-40.  Temperature and top_p are kept in hundredths, the
\* resolution round(x, 2) leaves in process_selected.
SUPPORTED_MODELS == {"gpt-4.1", "gpt-4.1-mini", "gpt-4.1-nano"}
DEFAULT_MODEL == "gpt-4.1"
DEFAULT_TEMPERATURE == 70
DEFAULT_TOP_P == 100
DEFAULT_OUTPUT_FORMAT == ".txt"
OutputFormats == {".txt", ".md"}

\* Content of the active prompt preset (SYSTEM_PROMPT.txt) at start-up.
DefaultPromptContent == "system prompt"

\* Values the user can give the widgets.
WidgetModels == {"gpt-4.1", "gpt-4.1-mini"}
WidgetTemperatures == {0, 70}
WidgetTopPs == {50, 100}
WidgetPrompts == {"", DefaultPromptContent}

\* Source files shown in the list: (directory, base name without extension).
PathList == << <<"d1", "a">>, <<"d2", "a">>, <<"d1", "b">> >>
Paths == {PathList[i] : i \in 1..Len(PathList)}
Names == {p[2] : p \in Paths}

\* Texts the completion service may return (already stripped).
Outputs == {"HELLO", "WORLD"}
OldArtifact == "OLD"

----------------------------------------------------------------------------
(* config.py *)

SettingsKeys == {"model", "temperature", "top_p", "output_format"}

\* A settings file without any of the model keys.
EmptySettings == [k \in {} |-> None]

\* dict.get(key, default)
Get(d, key, default) == IF key \in DOMAIN d THEN d[key] ELSE default

\* config.py:106-129
get_model_settings(s) ==
    LET model == Get(s, "model", DEFAULT_MODEL)
        output_format == Get(s, "output_format", DEFAULT_OUTPUT_FORMAT)
    IN [model         |-> IF model \in SUPPORTED_MODELS THEN model ELSE DEFAULT_MODEL,
        temperature   |-> Get(s, "temperature", DEFAULT_TEMPERATURE),
        top_p         |-> Get(s, "top_p", DEFAULT_TOP_P),
        output_format |-> IF output_format \in OutputFormats
                          THEN output_format ELSE DEFAULT_OUTPUT_FORMAT]

\* The checks of config.py:139-156 on one supplied argument.
ValidSetting(key, value) ==
    CASE key = "model"         -> value \in SUPPORTED_MODELS
      [] key = "temperature"   -> 0 <= value /\ value <= 200
      [] key = "top_p"         -> 0 <= value /\ value <= 100
      [] key = "output_format" -> value \in OutputFormats

\* Mutant: each argument is saved as soon as it has passed its own check.
set_model_settings_SavesEach(s, given) ==
    [raised   |-> \E k \in DOMAIN given : ~ValidSetting(k, given[k]),
     settings |-> [k \in DOMAIN s \cup {g \in DOMAIN given : ValidSetting(g, given[g])} |->
                      IF k \in DOMAIN given /\ ValidSetting(k, given[k])
                      THEN given[k] ELSE s[k]]]

\* config.py:132-158.  given maps the arguments that are not None to their
\* values.  A failed check raises before _save_settings is reached, so the
\* persisted settings stay as they were.
set_model_settings(s, given) ==
    IF \A k \in DOMAIN given : ValidSetting(k, given[k])
    THEN [raised |-> FALSE,
          settings |-> [k \in DOMAIN s \cup DOMAIN given |->
                           IF k \in DOMAIN given THEN given[k] ELSE s[k]]]
    ELSE [raised |-> TRUE, settings |-> s]

----------------------------------------------------------------------------
(* openai_client.py *)

\* openai_client.py:24 the text of the RuntimeError raised without a client
NotConfiguredMessage == "OPENAI_API_KEY environment variable not set."

----------------------------------------------------------------------------
(* file_ops.py *)

\* Mutant: the extension argument is ignored for its default.
get_processed_path_DefaultExtension(original_path, extension) ==
    <<original_path[2], DEFAULT_OUTPUT_FORMAT>>

\* file_ops.py:25-29
get_processed_path(original_path, extension) == <<original_path[2], extension>>

\* gui.py:491-493 with the extension as a parameter
isProcessed(path, ext) == processed[get_processed_path(path, ext)] # Absent

\* x or y, for a keyword argument that may be missing (None) or empty
Truthy(d, key) == key \in DOMAIN d /\ d[key] # ""

\* Mutant: the settings file wins over the keyword arguments.
ResolveConfig_Live(kw, live) ==
    [model         |-> live.model,
     temperature   |-> live.temperature,
     top_p         |-> live.top_p,
     output_format |-> live.output_format,
     prompt_text   |-> Get(kw, "prompt_text", DefaultPromptContent)]

\* file_ops.py:39-46: the values process_file works with, from its keyword
\* arguments kw and the settings file as it is when the job starts.
ResolveConfig(kw, live) ==
    [model         |-> IF Truthy(kw, "model") THEN kw["model"] ELSE live.model,
     temperature   |-> Get(kw, "temperature", live.temperature),
     top_p         |-> Get(kw, "top_p", live.top_p),
     output_format |-> IF Truthy(kw, "output_format")
                       THEN kw["output_format"] ELSE live.output_format,
     prompt_text   |-> Get(kw, "prompt_text", DefaultPromptContent)]

\* openai_client.py:31-41: the request ask_chatgpt sends
Payload(cfg) ==
    [model |-> cfg.model, system_prompt |-> cfg.prompt_text,
     temperature |-> cfg.temperature, top_p |-> cfg.top_p]

Max(a, b) == IF a >= b THEN a ELSE b

----------------------------------------------------------------------------
(* State *)

JobIds == 1..Len(jobs)

\* gui.py:581-587: the values process_selected passes to every job of a batch
Snapshot(w) ==
    [k \in {"model", "temperature", "top_p", "output_format", "prompt_text"} |->
        CASE k = "model"         -> w.model
          [] k = "temperature"   -> w.temperature
          [] k = "top_p"         -> w.top_p
          [] k = "output_format" -> w.output_format
          [] k = "prompt_text"   -> w.prompt_text]

NoLocals == [k \in {} |-> None]

\* gui.py:594-614: the thread process_selected creates for one chosen path
NewJob(path, w) ==
    [path      |-> path,
     kw        |-> Snapshot(w),      \* cur_model, cur_prompt, ... of the closure
     cfg       |-> NoLocals,         \* locals of process_file, set when it runs
     pc        |-> "pending",
     events    |-> << >>,            \* started / succeeded / failed, as logged
     reason    |-> << >>,            \* what the failed event reports: tag, message
     sent      |-> << >>,            \* requests issued to the service
     outline   |-> None,             \* text the service returned
     outfile   |-> << >>,            \* path the job opened for writing
     warned    |-> FALSE,            \* clipboard warning logged
     io        |-> [read |-> "-", ask |-> "-", write |-> "-"],
     before    |-> processed[get_processed_path(path, w.output_format)],
                                     \* history: its artifact at submission
     profile   |-> w,                \* history: the widgets at submission
     new_count |-> 0]

\* Mutant: the answer is taken from the listing of the folder made at startup.
processed_status_Startup(path) ==
    IF get_processed_path(path, widgets.output_format) = <<"a", ".txt">>
    THEN "Yes" ELSE "-"

\* gui.py:491-493 processed_status: the format is read from the widget at
\* the time of the call.
processed_status(path) ==
    IF isProcessed(path, widgets.output_format) THEN "Yes" ELSE "-"

\* No callback is queued.
NoCallbacks == [stop |-> 0, status |-> [p \in Paths |-> 0]]

\* No call of set_model_settings has been made.
NoCall == [given |-> EmptySettings, raised |-> FALSE]

Init ==
    /\ jobs = << >>
    /\ processing_count = 0
    /\ settings = EmptySettings
    /\ widgets = [model         |-> get_model_settings(EmptySettings).model,
                  temperature   |-> get_model_settings(EmptySettings).temperature,
                  top_p         |-> get_model_settings(EmptySettings).top_p,
                  output_format |-> get_model_settings(EmptySettings).output_format,
                  prompt_text   |-> DefaultPromptContent]
    /\ processed = [d \in Names \X OutputFormats |->
                        IF d = <<"a", ".txt">> THEN OldArtifact ELSE Absent]
    /\ clipboard = None
    /\ client \in BOOLEAN
    /\ edits = 0
    /\ progress_bar = FALSE
    /\ after = NoCallbacks
    /\ tree = [p \in Paths |-> processed_status(p)]
    /\ last_call = NoCall

----------------------------------------------------------------------------
(* Main thread: Tk callbacks *)

\* The selected rows in list order (tree.selection()).
Selected(sel) == SelectSeq(PathList, LAMBDA p : p \in sel)

NewJobs(sel) == [i \in 1..Len(Selected(sel)) |-> NewJob(Selected(sel)[i], widgets)]

\* gui.py:575-614 process_selected, with a non-empty selection
process_selected(sel) ==
    /\ sel # {}
    /\ Len(jobs) + Cardinality(sel) <= MaxJobs
    /\ progress_bar' = TRUE
    /\ processing_count' = processing_count + Cardinality(sel)
    /\ jobs' = jobs \o NewJobs(sel)
    /\ UNCHANGED <<widgets, settings, processed, clipboard, client, edits,
                 after, tree, last_call>>

\* The user moves one of the settings widgets (gui.py:324-355) or edits the
\* prompt text (gui.py:394-414).
EditWidget(key, value) == [widgets EXCEPT ![key] = value]

SetModel ==
    /\ edits < MaxEdits
    /\ \E m \in WidgetModels \ {widgets.model} : widgets' = EditWidget("model", m)
    /\ edits' = edits + 1
    /\ UNCHANGED <<jobs, processing_count, settings, processed, clipboard, client,
                 progress_bar, after, tree, last_call>>

SetTemperature ==
    /\ edits < MaxEdits
    /\ \E t \in WidgetTemperatures \ {widgets.temperature} :
          widgets' = EditWidget("temperature", t)
    /\ edits' = edits + 1
    /\ UNCHANGED <<jobs, processing_count, settings, processed, clipboard, client,
                 progress_bar, after, tree, last_call>>

SetTopP ==
    /\ edits < MaxEdits
    /\ \E t \in WidgetTopPs \ {widgets.top_p} : widgets' = EditWidget("top_p", t)
    /\ edits' = edits + 1
    /\ UNCHANGED <<jobs, processing_count, settings, processed, clipboard, client,
                 progress_bar, after, tree, last_call>>

SetOutputFormat ==
    /\ edits < MaxEdits
    /\ \E f \in OutputFormats \ {widgets.output_format} :
          widgets' = EditWidget("output_format", f)
    /\ edits' = edits + 1
    /\ UNCHANGED <<jobs, processing_count, settings, processed, clipboard, client,
                 progress_bar, after, tree, last_call>>

EditPrompt ==
    /\ edits < MaxEdits
    /\ \E p \in WidgetPrompts \ {widgets.prompt_text} :
          widgets' = EditWidget("prompt_text", p)
    /\ edits' = edits + 1
    /\ UNCHANGED <<jobs, processing_count, settings, processed, clipboard, client,
                 progress_bar, after, tree, last_call>>

\* gui.py:358-369 save_settings
save_settings ==
    LET given == [k \in SettingsKeys |-> widgets[k]]
        call == set_model_settings(settings, given)
    IN /\ settings' = call.settings
       /\ settings' # settings
       /\ last_call' = [given |-> given, raised |-> call.raised]
       /\ UNCHANGED <<jobs, processing_count, widgets, processed, clipboard, client,
                    edits, progress_bar, after, tree>>

----------------------------------------------------------------------------
(* Worker thread of job j: _run (gui.py:595-612) around process_file *)

SetJob(j, new) == jobs' = [jobs EXCEPT ![j] = new]

\* Mutant: the failure is returned without being logged.
Fail_Silent(job, reason) ==
    [job EXCEPT !.reason = reason, !.pc = "finally"]

\* process_file returns False after logging the failure (file_ops.py:57-58,
\* 72-73, 89-90); _run goes on to its finally block.  The tags stand for the
\* log prefixes "Read error", "ChatGPT error" and "File save error", the
\* message for the exception text.
Fail(job, reason) ==
    [job EXCEPT !.events = Append(@, "failed"), !.reason = reason, !.pc = "finally"]

\* Mutant: the loop of process_selected joins each thread before it starts
\* the next one.
StartJob_Joined(j) ==
    /\ jobs[j].pc = "pending"
    /\ \A i \in 1..(j - 1) : jobs[i].pc = "done"
    /\ SetJob(j, [jobs[j] EXCEPT
            !.cfg = ResolveConfig(jobs[j].kw, get_model_settings(settings)),
            !.events = Append(@, "started"),
            !.pc = "read"])
    /\ UNCHANGED <<processing_count, widgets, settings, processed, clipboard, client, edits,
                 progress_bar, after, tree, last_call>>

\* The thread starts; file_ops.py:39-52 resolves the configuration and logs
\* the selected file.
StartJob(j) ==
    /\ jobs[j].pc = "pending"
    /\ SetJob(j, [jobs[j] EXCEPT
            !.cfg = ResolveConfig(jobs[j].kw, get_model_settings(settings)),
            !.events = Append(@, "started"),
            !.pc = "read"])
    /\ UNCHANGED <<processing_count, widgets, settings, processed, clipboard, client, edits,
                 progress_bar, after, tree, last_call>>

\* Mutant: the read is made outside the try, so its exception leaves
\* process_file and reaches the finally block of _run.
ReadTranscript_Uncaught(j) ==
    /\ jobs[j].pc = "read"
    /\ \/ SetJob(j, [jobs[j] EXCEPT !.io.read = "ok", !.pc = "ask"])
       \/ SetJob(j, [jobs[j] EXCEPT !.io.read = "err", !.pc = "finally"])
    /\ UNCHANGED <<processing_count, widgets, settings, processed, clipboard, client, edits,
                 progress_bar, after, tree, last_call>>

\* file_ops.py:53-58
ReadTranscript(j) ==
    /\ jobs[j].pc = "read"
    /\ \/ SetJob(j, [jobs[j] EXCEPT !.io.read = "ok", !.pc = "ask"])
       \/ SetJob(j, Fail([jobs[j] EXCEPT !.io.read = "err"], <<"ReadError", "OSError">>))
    /\ UNCHANGED <<processing_count, widgets, settings, processed, clipboard, client, edits,
                 progress_bar, after, tree, last_call>>

\* Mutant: the output file is opened before the request is made, and is
\* left empty when the request fails.
AskChatGPT_OpensFirst(j) ==
    LET outfile == <<jobs[j].path[2], jobs[j].cfg.output_format>>
    IN /\ jobs[j].pc = "ask"
       /\ IF ~client
          THEN /\ SetJob(j, Fail([jobs[j] EXCEPT !.io.ask = "err"],
                      <<"ServiceError", NotConfiguredMessage>>))
               /\ UNCHANGED processed
          ELSE LET asked == [jobs[j] EXCEPT !.sent = Append(@, Payload(jobs[j].cfg))]
               IN \/ /\ \E text \in Outputs :
                          SetJob(j, [asked EXCEPT !.io.ask = "ok", !.outline = text,
                                                  !.pc = "copy"])
                     /\ UNCHANGED processed
                  \/ /\ SetJob(j, Fail([asked EXCEPT !.io.ask = "err",
                                                       !.outfile = outfile],
                             <<"ServiceError", "request failed">>))
                     /\ processed' = [processed EXCEPT ![outfile] = ""]
       /\ UNCHANGED <<processing_count, widgets, settings, clipboard, client, edits,
                 progress_bar, after, tree, last_call>>

\* Mutant: after a failed request the file is read and sent again.
AskChatGPT_Retry(j) ==
    /\ jobs[j].pc = "ask"
    /\ IF ~client
       THEN SetJob(j, Fail([jobs[j] EXCEPT !.io.ask = "err"],
                   <<"ServiceError", NotConfiguredMessage>>))
       ELSE LET asked == [jobs[j] EXCEPT !.sent = <<Payload(jobs[j].cfg)>>]
            IN \/ \E text \in Outputs :
                    SetJob(j, [asked EXCEPT !.io.ask = "ok", !.outline = text,
                                            !.pc = "copy"])
               \/ SetJob(j, [asked EXCEPT !.pc = "read"])
    /\ UNCHANGED <<processing_count, widgets, settings, processed, clipboard, client, edits,
                 progress_bar, after, tree, last_call>>

\* Mutant: the missing client is only noticed after the request was sent.
AskChatGPT_ChecksLate(j) ==
    LET asked == [jobs[j] EXCEPT !.sent = Append(@, Payload(jobs[j].cfg))]
    IN /\ jobs[j].pc = "ask"
       /\ IF ~client
          THEN SetJob(j, Fail([asked EXCEPT !.io.ask = "err"],
                      <<"ServiceError", NotConfiguredMessage>>))
          ELSE \/ \E text \in Outputs :
                    SetJob(j, [asked EXCEPT !.io.ask = "ok", !.outline = text,
                                            !.pc = "copy"])
               \/ SetJob(j, Fail([asked EXCEPT !.io.ask = "err"],
                          <<"ServiceError", "request failed">>))
       /\ UNCHANGED <<processing_count, widgets, settings, processed, clipboard, client,
                      edits, progress_bar, after, tree, last_call>>

\* Mutant: a failed request is sent a second time before the job gives up.
AskChatGPT_SendsAgain(j) ==
    /\ jobs[j].pc = "ask"
    /\ IF ~client
       THEN SetJob(j, Fail([jobs[j] EXCEPT !.io.ask = "err"],
                   <<"ServiceError", NotConfiguredMessage>>))
       ELSE LET asked == [jobs[j] EXCEPT !.sent = Append(@, Payload(jobs[j].cfg))]
                again == [asked EXCEPT !.sent = Append(@, Payload(jobs[j].cfg))]
            IN \/ \E text \in Outputs :
                    SetJob(j, [asked EXCEPT !.io.ask = "ok", !.outline = text,
                                            !.pc = "copy"])
               \/ SetJob(j, Fail([again EXCEPT !.io.ask = "err"],
                          <<"ServiceError", "request failed">>))
    /\ UNCHANGED <<processing_count, widgets, settings, processed, clipboard, client, edits,
                 progress_bar, after, tree, last_call>>

\* file_ops.py:63-73 around openai_client.py:22-51 ask_chatgpt.  Without a
\* client the call raises before any request is made.
AskChatGPT(j) ==
    /\ jobs[j].pc = "ask"
    /\ IF ~client
       THEN SetJob(j, Fail([jobs[j] EXCEPT !.io.ask = "err"],
                   <<"ServiceError", NotConfiguredMessage>>))
       ELSE LET asked == [jobs[j] EXCEPT !.sent = Append(@, Payload(jobs[j].cfg))]
            IN \/ \E text \in Outputs :
                    SetJob(j, [asked EXCEPT !.io.ask = "ok", !.outline = text,
                                            !.pc = "copy"])
               \/ SetJob(j, Fail([asked EXCEPT !.io.ask = "err"],
                          <<"ServiceError", "request failed">>))
    /\ UNCHANGED <<processing_count, widgets, settings, processed, clipboard, client, edits,
                 progress_bar, after, tree, last_call>>

\* Mutant: a failed clipboard copy ends the job like the other failures.
CopyToClipboard_Fatal(j) ==
    /\ jobs[j].pc = "copy"
    /\ \/ /\ clipboard' = jobs[j].outline
          /\ SetJob(j, [jobs[j] EXCEPT !.pc = "write"])
       \/ /\ UNCHANGED clipboard
          /\ SetJob(j, Fail([jobs[j] EXCEPT !.warned = TRUE],
                            <<"ClipboardError", "PyperclipException">>))
    /\ UNCHANGED <<processing_count, widgets, settings, processed, client, edits,
                 progress_bar, after, tree, last_call>>

\* file_ops.py:75-80
CopyToClipboard(j) ==
    /\ jobs[j].pc = "copy"
    /\ \/ /\ clipboard' = jobs[j].outline
          /\ SetJob(j, [jobs[j] EXCEPT !.pc = "write"])
       \/ /\ UNCHANGED clipboard
          /\ SetJob(j, [jobs[j] EXCEPT !.warned = TRUE, !.pc = "write"])
    /\ UNCHANGED <<processing_count, widgets, settings, processed, client, edits,
                 progress_bar, after, tree, last_call>>

\* Mutant: the artifact is reported saved without having been written.
WriteArtifact_NoWrite(j) ==
    LET outfile == <<jobs[j].path[2], jobs[j].cfg.output_format>>
        opened == [jobs[j] EXCEPT !.outfile = outfile]
    IN /\ jobs[j].pc = "write"
       /\ \/ /\ UNCHANGED processed
             /\ SetJob(j, [opened EXCEPT !.io.write = "ok", !.pc = "report"])
          \/ /\ UNCHANGED processed
             /\ SetJob(j, Fail([jobs[j] EXCEPT !.io.write = "err"],
                               <<"PersistError", "OSError">>))
          \/ /\ processed' = [processed EXCEPT ![outfile] = ""]
             /\ SetJob(j, Fail([opened EXCEPT !.io.write = "err"], <<"PersistError", "OSError">>))
       /\ UNCHANGED <<processing_count, widgets, settings, clipboard, client, edits,
                 progress_bar, after, tree, last_call>>

\* Mutant: the exception of a failed write is swallowed.
WriteArtifact_Swallow(j) ==
    LET outfile == <<jobs[j].path[2], jobs[j].cfg.output_format>>
        opened == [jobs[j] EXCEPT !.outfile = outfile]
    IN /\ jobs[j].pc = "write"
       /\ \/ /\ processed' = [processed EXCEPT ![outfile] = jobs[j].outline]
             /\ SetJob(j, [opened EXCEPT !.io.write = "ok", !.pc = "report"])
          \/ /\ UNCHANGED processed
             /\ SetJob(j, [jobs[j] EXCEPT !.io.write = "err", !.pc = "report"])
          \/ /\ processed' = [processed EXCEPT ![outfile] = ""]
             /\ SetJob(j, [opened EXCEPT !.io.write = "err", !.pc = "report"])
       /\ UNCHANGED <<processing_count, widgets, settings, clipboard, client, edits,
                 progress_bar, after, tree, last_call>>

\* file_ops.py:82-90.  open(outfile, "w") may raise (the folder is left as
\* it was) or succeed, which creates or truncates the file; f.write may
\* then raise too.
WriteArtifact(j) ==
    LET outfile == <<jobs[j].path[2], jobs[j].cfg.output_format>>
        opened == [jobs[j] EXCEPT !.outfile = outfile]
    IN /\ jobs[j].pc = "write"
       /\ \/ /\ processed' = [processed EXCEPT ![outfile] = jobs[j].outline]
             /\ SetJob(j, [opened EXCEPT !.io.write = "ok", !.pc = "report"])
          \/ /\ UNCHANGED processed
             /\ SetJob(j, Fail([jobs[j] EXCEPT !.io.write = "err"],
                               <<"PersistError", "OSError">>))
          \/ /\ processed' = [processed EXCEPT ![outfile] = ""]
             /\ SetJob(j, Fail([opened EXCEPT !.io.write = "err"], <<"PersistError", "OSError">>))
       /\ UNCHANGED <<processing_count, widgets, settings, clipboard, client, edits,
                 progress_bar, after, tree, last_call>>

\* file_ops.py:92-101: the job reports success and process_file returns True
ReportDone(j) ==
    /\ jobs[j].pc = "report"
    /\ SetJob(j, [jobs[j] EXCEPT !.events = Append(@, "succeeded"), !.pc = "finally"])
    /\ UNCHANGED <<processing_count, widgets, settings, processed, clipboard, client, edits,
                 progress_bar, after, tree, last_call>>

\* gui.py:606-607: update_processed_status(path) is queued, then
\* new_count = processing_count.get() - 1
FinallyGet(j) ==
    /\ jobs[j].pc = "finally"
    /\ after' = [after EXCEPT !.status[jobs[j].path] = @ + 1]
    /\ SetJob(j, [jobs[j] EXCEPT !.new_count = processing_count - 1, !.pc = "set"])
    /\ UNCHANGED <<processing_count, widgets, settings, processed, clipboard, client, edits,
                 progress_bar, tree, last_call>>

\* gui.py:608-612: processing_count.set(max(0, new_count)), and the stop of
\* the progress bar is queued if new_count <= 0; the thread ends.  (The
\* update_status callback of line 612 only redraws the status bar.)
FinallySet(j) ==
    /\ jobs[j].pc = "set"
    /\ processing_count' = Max(0, jobs[j].new_count)
    /\ after' = IF jobs[j].new_count <= 0 THEN [after EXCEPT !.stop = @ + 1] ELSE after
    /\ SetJob(j, [jobs[j] EXCEPT !.new_count = 0, !.pc = "done"])
    /\ UNCHANGED <<widgets, settings, processed, clipboard, client, edits,
                 progress_bar, tree, last_call>>

Worker(j) ==
    \/ StartJob(j)
    \/ ReadTranscript(j)
    \/ AskChatGPT(j)
    \/ CopyToClipboard(j)
    \/ WriteArtifact(j)
    \/ ReportDone(j)
    \/ FinallyGet(j)
    \/ FinallySet(j)

----------------------------------------------------------------------------
(* Main thread: the callbacks queued by the workers, and the file list *)

\* gui.py:610-611: the queued lambda stops and hides the progress bar
StopProgress ==
    /\ after.stop > 0
    /\ after' = [after EXCEPT !.stop = @ - 1]
    /\ progress_bar' = FALSE
    /\ UNCHANGED <<jobs, processing_count, widgets, settings, processed, clipboard,
                   client, edits, tree, last_call>>

\* gui.py:495-498 update_processed_status, run from the queue (gui.py:606)
update_processed_status(path) ==
    /\ after.status[path] > 0
    /\ after' = [after EXCEPT !.status[path] = @ - 1]
    /\ tree' = [tree EXCEPT ![path] = processed_status(path)]
    /\ UNCHANGED <<jobs, processing_count, widgets, settings, processed, clipboard,
                   client, edits, progress_bar, last_call>>

\* gui.py:500-515 refresh_list (the Refresh button): every row is rebuilt
refresh_list ==
    /\ tree' = [p \in Paths |-> processed_status(p)]
    /\ tree' # tree
    /\ UNCHANGED <<jobs, processing_count, widgets, settings, processed, clipboard,
                   client, edits, progress_bar, after, last_call>>

----------------------------------------------------------------------------
(* Specifications *)

\* The jobs and the settings panel.  The callbacks queued by the workers
\* stay queued here; ProgressSpec and StatusSpec run them.
Next ==
    \/ \E sel \in SUBSET Paths : process_selected(sel)
    \/ SetModel
    \/ SetTemperature
    \/ SetTopP
    \/ SetOutputFormat
    \/ EditPrompt
    \/ save_settings
    \/ \E j \in JobIds : StartJob(j)
    \/ \E j \in JobIds : ReadTranscript(j)
    \/ \E j \in JobIds : AskChatGPT(j)
    \/ \E j \in JobIds : CopyToClipboard(j)
    \/ \E j \in JobIds : WriteArtifact(j)
    \/ \E j \in JobIds : ReportDone(j)
    \/ \E j \in JobIds : FinallyGet(j)
    \/ \E j \in JobIds : FinallySet(j)

Spec == Init /\ [][Next]_vars

\* The jobs alone: the user submits batches and leaves the settings as they
\* are.
JobsNext ==
    \/ \E sel \in SUBSET Paths : process_selected(sel)
    \/ \E j \in JobIds : StartJob(j)
    \/ \E j \in JobIds : ReadTranscript(j)
    \/ \E j \in JobIds : AskChatGPT(j)
    \/ \E j \in JobIds : CopyToClipboard(j)
    \/ \E j \in JobIds : WriteArtifact(j)
    \/ \E j \in JobIds : ReportDone(j)
    \/ \E j \in JobIds : FinallyGet(j)
    \/ \E j \in JobIds : FinallySet(j)

JobsSpec == Init /\ [][JobsNext]_vars

\* The jobs and the progress bar: the main loop also runs the queued stop
\* callbacks.
ProgressNext ==
    \/ \E sel \in SUBSET Paths : process_selected(sel)
    \/ \E j \in JobIds : StartJob(j)
    \/ \E j \in JobIds : ReadTranscript(j)
    \/ \E j \in JobIds : AskChatGPT(j)
    \/ \E j \in JobIds : CopyToClipboard(j)
    \/ \E j \in JobIds : WriteArtifact(j)
    \/ \E j \in JobIds : ReportDone(j)
    \/ \E j \in JobIds : FinallyGet(j)
    \/ \E j \in JobIds : FinallySet(j)
    \/ StopProgress

ProgressSpec == Init /\ [][ProgressNext]_vars

\* The jobs and the file list: the user may change the output format and
\* press Refresh, and the main loop runs the queued status callbacks.
StatusNext ==
    \/ \E sel \in SUBSET Paths : process_selected(sel)
    \/ SetOutputFormat
    \/ refresh_list
    \/ \E j \in JobIds : StartJob(j)
    \/ \E j \in JobIds : ReadTranscript(j)
    \/ \E j \in JobIds : AskChatGPT(j)
    \/ \E j \in JobIds : CopyToClipboard(j)
    \/ \E j \in JobIds : WriteArtifact(j)
    \/ \E j \in JobIds : ReportDone(j)
    \/ \E j \in JobIds : FinallyGet(j)
    \/ \E j \in JobIds : FinallySet(j)
    \/ \E path \in Paths : update_processed_status(path)

StatusSpec == Init /\ [][StatusNext]_vars

\* The values a caller may pass for each argument of set_model_settings
\* (config.py:132-137), valid and invalid ones.
ArgValues ==
    [model         |-> {"gpt-4.1-mini", "gpt-5"},
     temperature   |-> {0, 200, 201, -1},
     top_p         |-> {100, 101},
     output_format |-> {".md", ".pdf"}]

\* The arguments of one call: those of keys are given, the others are None.
Given(keys, model, temperature, top_p, output_format) ==
    [k \in keys |-> CASE k = "model"         -> model
                      [] k = "temperature"   -> temperature
                      [] k = "top_p"         -> top_p
                      [] k = "output_format" -> output_format]

\* One call set_model_settings(**given), by any caller (config.py:132-158).
SetModelSettings(given) ==
    LET call == set_model_settings(settings, given)
    IN /\ settings' = call.settings
       /\ last_call' = [given |-> given, raised |-> call.raised]
       /\ UNCHANGED <<jobs, processing_count, widgets, processed, clipboard, client,
                      edits, progress_bar, after, tree>>

\* The settings store alone, under arbitrary calls of set_model_settings.
SettingsNext ==
    \E keys \in SUBSET SettingsKeys :
      \E model \in ArgValues.model, temperature \in ArgValues.temperature,
         top_p \in ArgValues.top_p, output_format \in ArgValues.output_format :
         SetModelSettings(Given(keys, model, temperature, top_p, output_format))

SettingsSpec == Init /\ [][SettingsNext]_vars

\* Every started thread keeps being scheduled, and each blocking call (file
\* read, service request, file write) returns or raises.
FairJobsSpec == JobsSpec /\ \A j \in 1..MaxJobs : WF_vars(j \in JobIds /\ Worker(j))

----------------------------------------------------------------------------
(* Job states of the specification *)

\* The job has emitted its terminal event.
Terminal(job) == Len(job.events) = 2
Succeeded(job) == job.events = <<"started", "succeeded">>
Failed(job) == job.events = <<"started", "failed">>

\* The job's worker has finished, its decrement of processing_count included.
Completed(job) == job.pc = "done"

\* The state right after the job has reported success.
ReportsSucceeded(job) == Succeeded(job) /\ job.pc = "finally"

ReasonTag(job) == IF job.reason = << >> THEN None ELSE job.reason[1]

TypeOK ==
    /\ processing_count \in Nat
    /\ Len(jobs) <= MaxJobs

----------------------------------------------------------------------------
(* Claims *)

\* C1: every job emits started, then exactly one of succeeded and failed:
\* at no time has a job emitted anything but a prefix of [started, terminal],
\* a job that has been started has emitted started, and a job whose
\* process_file has returned has emitted both events.
C1_StartedThenOneTerminal ==
    \A j \in JobIds :
        /\ jobs[j].events \in {<< >>, <<"started">>, <<"started", "succeeded">>,
                               <<"started", "failed">>}
        /\ (jobs[j].pc = "pending") = (jobs[j].events = << >>)
        /\ (jobs[j].pc \in {"finally", "set", "done"}) = (Len(jobs[j].events) = 2)

\* Two jobs of one batch have both ended, one succeeded and one failed.
C1_Witness ==
    \E j, k \in JobIds :
        /\ Completed(jobs[j]) /\ Succeeded(jobs[j])
        /\ Completed(jobs[k]) /\ Failed(jobs[k])

\* C2: processing_count equals the number of jobs that are Pending or
\* Running.  A job is counted as running until its worker has decremented
\* the counter, the reading most favourable to the code.
C2_CountEqualsActive ==
    processing_count = Cardinality({j \in JobIds : ~Completed(jobs[j])})

\* C3: the model, sampling values and prompt a job sends to the service and
\* the extension of the artifact it writes are those of the widgets when
\* process_selected was called, whatever the widgets and the settings file
\* hold by then.
C3_FrozenSnapshot ==
    \A j \in JobIds :
        /\ \A i \in 1..Len(jobs[j].sent) :
              jobs[j].sent[i] = [model         |-> jobs[j].profile.model,
                                 system_prompt |-> jobs[j].profile.prompt_text,
                                 temperature   |-> jobs[j].profile.temperature,
                                 top_p         |-> jobs[j].profile.top_p]
        /\ jobs[j].outfile # << >> =>
              jobs[j].outfile = get_processed_path(jobs[j].path,
                                                   jobs[j].profile.output_format)

\* A job has called the service and written its artifact after the widgets
\* were changed and saved to the settings file.
C3_Witness ==
    \E j \in JobIds :
        /\ Len(jobs[j].sent) = 1
        /\ jobs[j].outfile # << >>
        /\ widgets # jobs[j].profile
        /\ \E k \in SettingsKeys :
              get_model_settings(settings)[k] # jobs[j].profile[k]

\* The destination path of job j.
Dest(j) == get_processed_path(jobs[j].path, jobs[j].profile.output_format)

\* Another job has opened the destination of job j for writing.
OtherWriter(j) == \E k \in JobIds \ {j} : jobs[k].outfile = Dest(j)

C5_Original ==
    \A j \in JobIds :
        jobs[j].io.ask = "err" =>
            /\ Failed(jobs[j]) /\ ReasonTag(jobs[j]) = "ServiceError"
            /\ jobs[j].outfile = << >>
            /\ jobs[j].before = Absent =>
                  ~isProcessed(jobs[j].path, jobs[j].profile.output_format)

\* C5 as amended: a job whose service call failed ends failed with a
\* ServiceError reason and has written no artifact; if isProcessed was false
\* for its path and format before and no other job has written to the same
\* destination path, it is false now.
C5_ServiceFailureWritesNothing ==
    \A j \in JobIds :
        jobs[j].io.ask = "err" =>
            /\ Failed(jobs[j]) /\ ReasonTag(jobs[j]) = "ServiceError"
            /\ jobs[j].outfile = << >>
            /\ (jobs[j].before = Absent /\ ~OtherWriter(j)) =>
                  ~isProcessed(jobs[j].path, jobs[j].profile.output_format)

\* A job has ended after a failed request, and its destination, which held
\* no artifact before, still holds none.
C5_Witness ==
    \E j \in JobIds :
        /\ Completed(jobs[j])
        /\ jobs[j].reason = <<"ServiceError", "request failed">>
        /\ jobs[j].before = Absent
        /\ ~isProcessed(jobs[j].path, jobs[j].profile.output_format)

\* C6: a job whose transform call returned and whose write failed ends
\* failed with a PersistError reason and has not reported succeeded.
C6_WriteFailureIsPersistError ==
    \A j \in JobIds :
        (jobs[j].io.ask = "ok" /\ jobs[j].io.write = "err") =>
            /\ Failed(jobs[j])
            /\ ReasonTag(jobs[j]) = "PersistError"

\* A job has ended after the service answered and the write failed.
C6_Witness ==
    \E j \in JobIds :
        /\ Completed(jobs[j])
        /\ jobs[j].outline \in Outputs
        /\ jobs[j].io.write = "err"

\* The terminal event and reason tag that a job's own read, service and write
\* results determine.
OwnOutcome(io) ==
    CASE io.read = "err"  -> <<"failed", "ReadError">>
      [] io.read = "ok" /\ io.ask = "err" -> <<"failed", "ServiceError">>
      [] io.read = "ok" /\ io.ask = "ok" /\ io.write = "err" -> <<"failed", "PersistError">>
      [] io.read = "ok" /\ io.ask = "ok" /\ io.write = "ok" -> <<"succeeded", None>>
      [] OTHER -> <<"none", None>>

\* C7: jobs are independent.  Whatever the other jobs are doing, a job whose
\* worker has not finished can take its next step, and the terminal event
\* and reason of a job are those its own read, service and write results
\* determine.
C7_JobsIndependent ==
    \A j \in JobIds :
        /\ ~Completed(jobs[j]) => ENABLED Worker(j)
        /\ Terminal(jobs[j]) =>
              <<jobs[j].events[2], ReasonTag(jobs[j])>> = OwnOutcome(jobs[j].io)

\* A later job on another path has succeeded and finished while the remote
\* call of an earlier job has not returned.
C7_Witness ==
    \E a, b \in JobIds :
        /\ a < b
        /\ jobs[a].path # jobs[b].path
        /\ jobs[a].pc = "ask"
        /\ Completed(jobs[b]) /\ Succeeded(jobs[b])

\* C8: processing_count is 0 only when every submitted job has emitted its
\* terminal event.
C8_ZeroOnlyWhenAllTerminal ==
    processing_count = 0 => \A j \in JobIds : Terminal(jobs[j])

\* C9: once the worker of every submitted job has finished, each having
\* decremented the counter, processing_count is 0.
C9_ZeroWhenAllCompleted ==
    (\A j \in JobIds : Completed(jobs[j])) => processing_count = 0

\* C10: every submitted job eventually emits its terminal event, provided
\* its thread keeps being scheduled and its blocking calls return or raise.
C10_EveryJobTerminates ==
    \A j \in 1..MaxJobs :
        (j \in JobIds) ~> (j \in JobIds /\ Terminal(jobs[j]))

\* As many jobs as the model admits have been submitted and all have ended.
C10_Witness ==
    /\ Len(jobs) = MaxJobs
    /\ \A j \in JobIds : Terminal(jobs[j]) /\ Completed(jobs[j])

----------------------------------------------------------------------------
\* C11: once a job has emitted its terminal event, its events, its reason and
\* the requests it sent never change again, and no job ever sends more than
\* one request to the service, also when the request failed.
C11_TerminalIsFinal ==
    [][\A j \in JobIds :
          /\ Len(jobs'[j].sent) <= 1
          /\ Terminal(jobs[j]) =>
                /\ jobs'[j].events = jobs[j].events
                /\ jobs'[j].reason = jobs[j].reason
                /\ jobs'[j].sent = jobs[j].sent
                /\ jobs'[j].io = jobs[j].io]_vars

\* A job whose only request failed has run to the end of its thread.
C11_Witness ==
    \E j \in JobIds :
        /\ jobs[j].pc = "done"
        /\ Failed(jobs[j])
        /\ jobs[j].io.ask = "err"
        /\ Len(jobs[j].sent) = 1

----------------------------------------------------------------------------
\* C12: a job whose read, request or write raised has emitted a failed event
\* whose reason carries the tag of that step (ReadError, ServiceError,
\* PersistError), and every worker that has left process_file has logged a
\* terminal event: no exception of a step reaches _run.
C12_ErrorsAreReported ==
    \A j \in JobIds :
        /\ jobs[j].io.read = "err" =>
               Failed(jobs[j]) /\ ReasonTag(jobs[j]) = "ReadError"
        /\ jobs[j].io.ask = "err" =>
               Failed(jobs[j]) /\ ReasonTag(jobs[j]) = "ServiceError"
        /\ jobs[j].io.write = "err" =>
               Failed(jobs[j]) /\ ReasonTag(jobs[j]) = "PersistError"
        /\ jobs[j].pc \in {"finally", "set", "done"} => Terminal(jobs[j])

\* Two threads have ended, one on an unreadable source and one on an
\* unwritable artifact.
C12_Witness ==
    \E j, k \in JobIds :
        /\ jobs[j].pc = "done" /\ jobs[j].io.read = "err"
        /\ jobs[k].pc = "done" /\ jobs[k].io.write = "err"

----------------------------------------------------------------------------
\* C13: without a client no job ever sends a request and every attempted
\* transform fails with the not-configured message; with a client, a failed
\* request was sent and reports another message.  So the reported failure is
\* the not-configured one exactly when no request was issued.
C13_NotConfiguredBeforeRequest ==
    \A j \in JobIds :
        /\ ~client => jobs[j].sent = << >> /\ jobs[j].io.ask # "ok"
        /\ jobs[j].io.ask = "err" =>
              /\ Failed(jobs[j])
              /\ (jobs[j].reason[2] = NotConfiguredMessage) = (~client)
              /\ (jobs[j].reason[2] = NotConfiguredMessage) = (jobs[j].sent = << >>)

\* Without a client, a job has attempted the transform and its thread has
\* ended.
C13_Witness ==
    /\ ~client
    /\ \E j \in JobIds :
          /\ jobs[j].pc = "done"
          /\ jobs[j].io.ask = "err"
          /\ jobs[j].reason = <<"ServiceError", NotConfiguredMessage>>

----------------------------------------------------------------------------
\* C14: a job whose clipboard copy raised still attempts its write and ends
\* Succeeded or Failed by the result of that write alone, in the same state
\* and with the same reason tag as any job with the same read, request and
\* write results whose copy succeeded; the failed copy only leaves a warning.
C14_ClipboardFailureKeepsOutcome ==
    \A j \in JobIds :
        (jobs[j].warned /\ jobs[j].pc \in {"finally", "set", "done"}) =>
            /\ jobs[j].io.write # "-"
            /\ Succeeded(jobs[j]) = (jobs[j].io.write = "ok")
            /\ Failed(jobs[j]) = (jobs[j].io.write = "err")
            /\ \A k \in JobIds :
                  (/\ ~jobs[k].warned
                   /\ jobs[k].pc \in {"finally", "set", "done"}
                   /\ jobs[k].io = jobs[j].io)
                  => /\ jobs[k].events = jobs[j].events
                     /\ ReasonTag(jobs[k]) = ReasonTag(jobs[j])

\* Two jobs with the same step results have ended Succeeded, one of them
\* after a failed clipboard copy.
C14_Witness ==
    \E j, k \in JobIds :
        /\ jobs[j].pc = "done" /\ jobs[k].pc = "done"
        /\ jobs[j].warned /\ ~jobs[k].warned
        /\ jobs[j].io = jobs[k].io
        /\ Succeeded(jobs[j])

----------------------------------------------------------------------------
\* C15: once every submitted job has emitted its terminal event, the
\* clipboard holds what it held before the jobs or the output text of a job
\* that ended Succeeded.
C15_ClipboardOnlyFromSucceeded ==
    (\A j \in JobIds : Terminal(jobs[j])) =>
        \/ clipboard = None
        \/ \E j \in JobIds : Succeeded(jobs[j]) /\ jobs[j].outline = clipboard

----------------------------------------------------------------------------
\* C16: the file a job opens for writing is the one get_processed_path gives
\* for its source path and output format, which depends on the base name and
\* the format only: jobs on sources with the same base name and format, in
\* whatever directories, open the same file; and a write that succeeds leaves
\* the job's own text there whatever an earlier writer had left.
C16_WritePathIsProcessedPath ==
    /\ [](\A j \in JobIds :
            jobs[j].outfile # << >> =>
               /\ jobs[j].outfile =
                     get_processed_path(jobs[j].path, jobs[j].cfg.output_format)
               /\ \A k \in JobIds :
                     (/\ jobs[k].outfile # << >>
                      /\ jobs[k].path[2] = jobs[j].path[2]
                      /\ jobs[k].cfg.output_format = jobs[j].cfg.output_format)
                     => jobs[k].outfile = jobs[j].outfile)
    /\ [][\A j \in JobIds :
             (jobs[j].pc = "write" /\ jobs'[j].pc = "report") =>
                /\ processed'[get_processed_path(jobs[j].path,
                                                  jobs[j].cfg.output_format)]
                      = jobs[j].outline
                /\ isProcessed(jobs[j].path, jobs[j].cfg.output_format)']_vars

\* Two jobs on sources of the same name in different directories have both
\* written the same file, and it holds the text of one of them only.
C16_Witness ==
    \E j, k \in JobIds :
        /\ jobs[j].path[1] # jobs[k].path[1]
        /\ jobs[j].io.write = "ok" /\ jobs[k].io.write = "ok"
        /\ jobs[j].outfile = jobs[k].outfile
        /\ jobs[j].outline # jobs[k].outline
        /\ processed[jobs[j].outfile] = jobs[k].outline

----------------------------------------------------------------------------
\* C17: each status query answers from the folder as it is when the query is
\* made.  A completion callback sets the row of its path to "Yes" exactly when
\* the artifact for the path and the current format exists at that moment; a
\* row that changes in any step changes to that answer; and a row that
\* already shows the answer for the current folder keeps it in every step
\* that leaves the folder and the format as they are.
C17_StatusFromFolderAtCall ==
    [][\A p \in Paths :
         LET exists == processed[<<p[2], widgets.output_format>>] # Absent
             answer == IF exists THEN "Yes" ELSE "-"
         IN /\ after'.status[p] < after.status[p] => tree'[p] = answer
            /\ (tree'[p] # tree[p] /\ processed' = processed /\ widgets' = widgets)
                  => tree'[p] = answer
            /\ (tree[p] = answer /\ processed' = processed /\ widgets' = widgets)
                  => tree'[p] = tree[p]]_vars

\* A job has created the artifact of d1/b, and its completion callback has
\* turned the row of d1/b to "Yes".
C17_Witness ==
    \E j \in JobIds :
        /\ jobs[j].path = <<"d1", "b">>
        /\ jobs[j].pc = "done"
        /\ after.status[jobs[j].path] = 0
        /\ tree[jobs[j].path] = "Yes"

----------------------------------------------------------------------------
\* C18: under any sequence of calls from empty settings, every stored value
\* is in its range; the last call raised exactly when one of its arguments
\* was out of range, left the stored settings as they were if it raised, and
\* stored each of its arguments if it did not; and get_model_settings
\* returns a model of the catalog, a temperature in [0, 2], a top_p in [0, 1]
\* and a format of {.txt, .md}.
C18_OnlyValidSettingsStored ==
    /\ [](LET InRange(k, v) ==
                CASE k = "model"         -> v \in {"gpt-4.1", "gpt-4.1-mini", "gpt-4.1-nano"}
                  [] k = "temperature"   -> v \in 0..200
                  [] k = "top_p"         -> v \in 0..100
                  [] k = "output_format" -> v \in {".txt", ".md"}
               given == last_call.given
           IN /\ \A k \in DOMAIN settings : InRange(k, settings[k])
              /\ last_call.raised = (\E k \in DOMAIN given : ~InRange(k, given[k]))
              /\ ~last_call.raised =>
                    \A k \in DOMAIN given :
                       k \in DOMAIN settings /\ settings[k] = given[k]
              /\ \A k \in SettingsKeys : InRange(k, get_model_settings(settings)[k]))
    /\ [][last_call'.raised => settings' = settings]_vars

\* A call has raised on one argument while another of its arguments was
\* valid and different from the stored value, which is still there.
C18_Witness ==
    /\ last_call.raised
    /\ \E k \in DOMAIN last_call.given \cap DOMAIN settings :
          /\ ValidSetting(k, last_call.given[k])
          /\ settings[k] # last_call.given[k]

----------------------------------------------------------------------------
\* C19: the destination of a job that ended Failed holds what it held when
\* the job was submitted (nothing, or the same earlier artifact), provided no
\* other job has opened that destination.
C19_FailedLeavesFolderUnchanged ==
    \A j \in JobIds :
        (Failed(jobs[j]) /\ ~OtherWriter(j)) => processed[Dest(j)] = jobs[j].before

----------------------------------------------------------------------------
\* C20: while a submitted job has not yet emitted its terminal event, the
\* progress bar is packed and running.
C20_ProgressWhileActive ==
    (\E j \in JobIds : ~Terminal(jobs[j])) => progress_bar

----------------------------------------------------------------------------
\* C21: when the completion callback of a path runs and every job on that
\* path whose callback has been queued ended Succeeded, the callback sets the
\* row of the path to "Yes", whatever the output-format selector shows by
\* then.
C21_SucceededRowIsYes ==
    [][\A p \in Paths :
         (/\ after'.status[p] < after.status[p]
          /\ \A j \in JobIds :
                (jobs[j].path = p /\ jobs[j].pc \in {"set", "done"})
                => Succeeded(jobs[j]))
         => tree'[p] = "Yes"]_vars
====
